---- MODULE Spec2Model ----
(***************************************************************************)
(* Flow graphs of pyflowgraph (flowgraph/core/flow_graph.py) and the graph *)
(* algebra on them: copy_flow_graph, flatten, join, flow_graph_to_graphml  *)
(* and flow_graph_from_graphml.                                            *)
(*                                                                         *)
(* A flow graph is a networkx MultiDiGraph.  It is modelled as a record    *)
(*   nodes  : the node identifiers, in insertion order                     *)
(*   label  : node -> the node's call attributes (nodes that have some)    *)
(*   sub    : node -> the nested flow graph of the node (attribute         *)
(*            'graph'); its domain is the set of composite nodes           *)
(*   edges  : the edges [src, tgt, key, data], kept in the order in which  *)
(*            networkx's adjacency dicts iterate them: the edges of one    *)
(*            (src, tgt) pair are contiguous and in key insertion order,   *)
(*            the pairs in the order in which they were created            *)
(*   input_node, output_node : the graph attributes naming the sentinels   *)
(* An edge's data is the dict [id, sourceport, targetport]; NoPort stands  *)
(* for a key that is absent from the dict.                                 *)
(***************************************************************************)
EXTENDS Integers, Sequences, FiniteSets, TLC

\* pc       where the caller is: drawing the input graphs, or past a call
\* G        the input graph of flatten and flow_graph_to_graphml, join's first
\* S        join's second
\* outputs  the outputs option given to flow_graph_to_graphml
\* R        what flatten, join or flow_graph_from_graphml returned: the
\*          graph, or ok = FALSE when the call raised an exception
\* D        the outer graph returned by flow_graph_to_graphml
\* passed   the graph object that was given to flatten, as it is after the
\*          call (G keeps the graph as it was when the call was made)
\* stmt     the statement given to ASTTraceTransformer
\* tree     what ASTTraceTransformer.visit returned for it, or the exception
\* run      the execution of the rewritten statement: the callbacks made
\*          on the tracer and the steps of the original program, in order
VARIABLES pc, G, S, outputs, R, D, passed, stmt, tree, run

vars == <<pc, G, S, outputs, R, D, passed, stmt, tree, run>>

\* ------------------------------------------------------------------ bounds
MaxEdges == 3
MaxDepth == 2

\* ------------------------------------------------------- the graph datatype
NoPort == "none"

EmptyMap == [x \in {} |-> x]

NodeSet(graph) == {graph.nodes[i] : i \in 1..Len(graph.nodes)}

has_node(graph, n) == n \in NodeSet(graph)

new_flow_graph ==
    [nodes |-> <<"__in__", "__out__">>,
     label |-> EmptyMap,
     sub |-> EmptyMap,
     edges |-> <<>>,
     input_node |-> "__in__",
     output_node |-> "__out__"]

out_edges(graph, n) == SelectSeq(graph.edges, LAMBDA e : e.src = n)

in_edges(graph, n) == SelectSeq(graph.edges, LAMBDA e : e.tgt = n)

RECURSIVE EdgesFrom(_, _)
EdgesFrom(graph, i) ==
    IF i > Len(graph.nodes) THEN <<>>
    ELSE out_edges(graph, graph.nodes[i]) \o EdgesFrom(graph, i + 1)

\* graph.edges: by source node in node order, then by neighbour, then by key
edges_view(graph) == EdgesFrom(graph, 1)

KeysOf(graph, u, v) ==
    {graph.edges[i].key : i \in {j \in 1..Len(graph.edges) :
        graph.edges[j].src = u /\ graph.edges[j].tgt = v}}

new_edge_key(graph, u, v) ==
    LET keys == KeysOf(graph, u, v)
        n == Cardinality(keys)
    IN  CHOOSE k \in n..(2 * n) : k \notin keys /\ \A j \in n..(k - 1) : j \in keys

add_node(graph, n) ==
    IF has_node(graph, n) THEN graph
    ELSE [graph EXCEPT !.nodes = Append(@, n)]

InsertAt(seq, i, x) == SubSeq(seq, 1, i) \o <<x>> \o SubSeq(seq, i + 1, Len(seq))

add_edge(graph, u, v, data) ==
    LET g1 == add_node(add_node(graph, u), v)
        e == [src |-> u, tgt |-> v, key |-> new_edge_key(graph, u, v), data |-> data]
        same == {i \in 1..Len(graph.edges) :
                    graph.edges[i].src = u /\ graph.edges[i].tgt = v}
        pos == IF same = {} THEN Len(graph.edges)
               ELSE CHOOSE i \in same : \A j \in same : j <= i
    IN  [g1 EXCEPT !.edges = InsertAt(graph.edges, pos, e)]

has_edge(graph, u, v, key) ==
    \E i \in 1..Len(graph.edges) :
        graph.edges[i].src = u /\ graph.edges[i].tgt = v /\ graph.edges[i].key = key

edge_data(graph, u, v, key) ==
    LET i == CHOOSE j \in 1..Len(graph.edges) :
                graph.edges[j].src = u /\ graph.edges[j].tgt = v
                /\ graph.edges[j].key = key
    IN  graph.edges[i].data

remove_edge(graph, u, v, key) ==
    [graph EXCEPT !.edges =
        SelectSeq(@, LAMBDA e : ~(e.src = u /\ e.tgt = v /\ e.key = key))]

Restrict(f, dom) == [x \in (DOMAIN f) \cap dom |-> f[x]]

remove_node(graph, n) ==
    [graph EXCEPT
        !.nodes = SelectSeq(@, LAMBDA m : m # n),
        !.label = Restrict(@, (DOMAIN @) \ {n}),
        !.sub = Restrict(@, (DOMAIN @) \ {n}),
        !.edges = SelectSeq(@, LAMBDA e : e.src # n /\ e.tgt # n)]

\* the edge (e.src, e.tgt, e.key) of graph with its data dict replaced by d
set_edge_data(graph, e, d) ==
    [graph EXCEPT !.edges =
        [i \in 1..Len(@) |->
            IF @[i].src = e.src /\ @[i].tgt = e.tgt /\ @[i].key = e.key
            THEN [@[i] EXCEPT !.data = d] ELSE @[i]]]

\* MultiDiGraph.copy(): a new graph with the nodes in node order and the
\* edges re-inserted, with their keys, in the order of graph.edges.  The data
\* dicts are copied; the values in them (a nested graph) are shared.
graph_copy(graph) == [graph EXCEPT !.edges = edges_view(graph)]

\* ------------------------------------------------------- copy_flow_graph
add_node_with_data(dest, source, n) ==
    LET d1 == add_node(dest, n)
        d2 == IF n \in DOMAIN source.label
              THEN [d1 EXCEPT !.label = (n :> source.label[n]) @@ @] ELSE d1
    IN  IF n \in DOMAIN source.sub
        THEN [d2 EXCEPT !.sub = (n :> source.sub[n]) @@ @] ELSE d2

RECURSIVE copy_nodes(_, _, _)
copy_nodes(source, dest, i) ==
    IF i > Len(source.nodes) THEN dest
    ELSE LET n == source.nodes[i]
             skip == {source.input_node, source.output_node}
         IN  copy_nodes(source,
                        IF n \in skip THEN dest ELSE add_node_with_data(dest, source, n),
                        i + 1)

RECURSIVE copy_edges(_, _, _, _)
copy_edges(source, es, dest, i) ==
    IF i > Len(es) THEN dest
    ELSE LET e == es[i]
             skip == {source.input_node, source.output_node}
         IN  copy_edges(source, es,
                        IF e.src \in skip \/ e.tgt \in skip THEN dest
                        ELSE add_edge(dest, e.src, e.tgt, e.data),
                        i + 1)

copy_flow_graph(source_graph, dest_graph) ==
    copy_edges(source_graph, edges_view(source_graph),
               copy_nodes(source_graph, dest_graph, 1), 1)

\* ---------------------------------------------------------------- flatten
Fail(graph) == [ok |-> FALSE, graph |-> graph]

Done(graph) == [ok |-> TRUE, graph |-> graph]

\* index of the first edge of es that carries obj_id, 0 when there is none
first_carrying(es, obj_id) ==
    IF \E i \in 1..Len(es) : es[i].data.id = obj_id
    THEN CHOOSE i \in 1..Len(es) :
            es[i].data.id = obj_id /\ \A j \in 1..(i - 1) : es[j].data.id # obj_id
    ELSE 0

\* The dict the name `data` is bound to in the else branch (line 190): the
\* inner loop of line 183 rebinds `data`, so after a loop that ran without a
\* break it is the data of the last parent edge into the node.
else_data(data, ins) == IF Len(ins) = 0 THEN data ELSE ins[Len(ins)].data

\* One iteration of the loop of lines 176-190, for the subgraph edge
\* sub_input_node -> tgt with dict data.
rewire_input(graph, node, tgt, data) ==
    IF data.targetport = NoPort THEN Fail(graph)    \* KeyError, line 177
    ELSE
    LET obj_id == data.id
        tgt_port == data.targetport
        ins == in_edges(graph, node)
        m == first_carrying(ins, obj_id)
    IN  IF m # 0
        THEN LET popped == [ins[m].data EXCEPT !.targetport = NoPort]
                 g1 == set_edge_data(graph, ins[m], popped)
             IN  Done(add_edge(g1, ins[m].src, tgt,
                               [popped EXCEPT !.targetport = tgt_port]))
        ELSE Done(add_edge(graph, graph.input_node, tgt, else_data(data, ins)))

RECURSIVE rewire_inputs(_, _, _, _)
rewire_inputs(st, node, es, i) ==
    IF ~st.ok \/ i > Len(es) THEN st
    ELSE rewire_inputs(rewire_input(st.graph, node, es[i].tgt, es[i].data),
                       node, es, i + 1)

\* The inner loop of lines 199-202 over the parent edges out of the node.
RECURSIVE rewire_consumers(_, _, _, _, _, _)
rewire_consumers(graph, outs, src, obj_id, src_port, j) ==
    IF j > Len(outs) THEN graph
    ELSE LET e == outs[j]
         IN  IF e.data.id = obj_id
             THEN LET popped == [e.data EXCEPT !.sourceport = NoPort]
                      g1 == set_edge_data(graph, e, popped)
                  IN  rewire_consumers(
                          add_edge(g1, src, e.tgt,
                                   [popped EXCEPT !.sourceport = src_port]),
                          outs, src, obj_id, src_port, j + 1)
             ELSE rewire_consumers(graph, outs, src, obj_id, src_port, j + 1)

\* rewire_output, had the loop of line 199 stopped at the first parent edge
\* that carries the object
rewire_output_first(graph, node, src, data) ==
    IF data.sourceport = NoPort THEN Fail(graph)
    ELSE LET outs == out_edges(graph, node)
             m == first_carrying(outs, data.id)
         IN  Done(rewire_consumers(graph,
                                   IF m = 0 THEN <<>> ELSE <<outs[m]>>, src,
                                   data.id, data.sourceport, 1))

\* One iteration of the loop of lines 193-202, for the subgraph edge
\* src -> sub_output_node with dict data.
rewire_output(graph, node, src, data) ==
    IF data.sourceport = NoPort THEN Fail(graph)    \* KeyError, line 194
    ELSE Done(rewire_consumers(graph, out_edges(graph, node), src,
                               data.id, data.sourceport, 1))

RECURSIVE rewire_outputs(_, _, _, _)
rewire_outputs(st, node, es, i) ==
    IF ~st.ok \/ i > Len(es) THEN st
    ELSE rewire_outputs(rewire_output(st.graph, node, es[i].src, es[i].data),
                        node, es, i + 1)

\* inline_node, had line 205 been left out
inline_node_keep(graph, node, subgraph) ==
    LET g1 == copy_flow_graph(subgraph, graph)
        s1 == rewire_inputs(Done(g1), node,
                            out_edges(subgraph, subgraph.input_node), 1)
    IN  rewire_outputs(s1, node, in_edges(subgraph, subgraph.output_node), 1)

\* Lines 169-205 for one composite node whose subgraph is already flat.
inline_node(graph, node, subgraph) ==
    LET g1 == copy_flow_graph(subgraph, graph)
        s1 == rewire_inputs(Done(g1), node,
                            out_edges(subgraph, subgraph.input_node), 1)
        s2 == rewire_outputs(s1, node,
                             in_edges(subgraph, subgraph.output_node), 1)
    IN  IF s2.ok THEN Done(remove_node(s2.graph, node)) ELSE s2

\* The nested graph of a node is one object, shared by graph.copy() (line
\* 160) with the graph it copies and changed in place by line 168: the node's
\* attribute holds fsub.graph from then on.
RECURSIVE flatten(_, _)
RECURSIVE flatten_nodes(_, _, _)
flatten_nodes(st, nodes, i) ==
    IF ~st.ok \/ i > Len(nodes) THEN st
    ELSE LET node == nodes[i]
         IN  IF node \notin DOMAIN st.graph.sub
             THEN flatten_nodes(st, nodes, i + 1)
             ELSE LET fsub == flatten(st.graph.sub[node], FALSE)
                      g1 == [st.graph EXCEPT !.sub[node] = fsub.graph]
                  IN  IF ~fsub.ok THEN Fail(g1)
                      ELSE flatten_nodes(inline_node(g1, node, fsub.graph),
                                         nodes, i + 1)

flatten(graph, copy) ==
    LET g0 == IF copy THEN graph_copy(graph) ELSE graph
    IN  flatten_nodes(Done(g0), g0.nodes, 1)

\* The nested graph objects of the nodes of the loop of line 164 as they are
\* when flatten returns or raises: subs maps each composite node to its
\* nested graph, which line 168 flattens in place.
RECURSIVE nested_after(_, _, _, _)
nested_after(st, nodes, i, subs) ==
    IF ~st.ok \/ i > Len(nodes) THEN subs
    ELSE LET node == nodes[i]
         IN  IF node \notin DOMAIN st.graph.sub
             THEN nested_after(st, nodes, i + 1, subs)
             ELSE LET fsub == flatten(st.graph.sub[node], FALSE)
                      g1 == [st.graph EXCEPT !.sub[node] = fsub.graph]
                  IN  nested_after(IF fsub.ok THEN inline_node(g1, node, fsub.graph)
                                   ELSE Fail(g1),
                                   nodes, i + 1, [subs EXCEPT ![node] = fsub.graph])

\* The graph object given to flatten(graph), copy = True, after the call: its
\* own nodes and edges are those of the copy's original, its nested graphs
\* the objects the copy shares with it.
flatten_argument(graph) ==
    LET g0 == graph_copy(graph)
    IN  [graph EXCEPT !.sub = nested_after(Done(g0), g0.nodes, 1, graph.sub)]

\* ------------------------------------------------------------------- join
\* The dict of lines 219-220: object id -> (source, key) of the last edge
\* into the output node that carries it.
RECURSIVE output_table_from(_, _, _)
output_table_from(es, i, table) ==
    IF i > Len(es) THEN table
    ELSE output_table_from(es, i + 1,
            (es[i].data.id :> <<es[i].src, es[i].key>>) @@ table)

output_table(graph) ==
    output_table_from(in_edges(graph, graph.output_node), 1, EmptyMap)

\* One iteration of the loop of lines 226-234.
join_input(graph, table, tgt, data) ==
    IF data.id \in DOMAIN table
    THEN LET src == table[data.id][1]
             key == table[data.id][2]
         IN  IF ~has_edge(graph, src, graph.output_node, key) THEN Fail(graph)
             ELSE LET src_port == edge_data(graph, src, graph.output_node, key).sourceport
                  IN  IF src_port = NoPort THEN Fail(graph)     \* KeyError, line 230
                      ELSE IF data.sourceport # NoPort THEN Fail(graph)  \* TypeError, line 231
                      ELSE Done(add_edge(graph, src, tgt,
                                         [data EXCEPT !.sourceport = src_port]))
    ELSE Done(add_edge(graph, graph.input_node, tgt, data))

RECURSIVE join_inputs(_, _, _, _)
join_inputs(st, table, es, i) ==
    IF ~st.ok \/ i > Len(es) THEN st
    ELSE join_inputs(join_input(st.graph, table, es[i].tgt, es[i].data),
                     table, es, i + 1)

\* join_output, had lines 239-241 been left out
join_output_keep(graph, table, src, data) ==
    Done(add_edge(graph, src, graph.output_node, data))

\* One iteration of the loop of lines 238-242.
join_output(graph, table, src, data) ==
    IF data.id \in DOMAIN table
    THEN LET old == table[data.id][1]
             key == table[data.id][2]
         IN  IF ~has_edge(graph, old, graph.output_node, key)
             THEN Fail(graph)                        \* NetworkXError, line 241
             ELSE Done(add_edge(remove_edge(graph, old, graph.output_node, key),
                                src, graph.output_node, data))
    ELSE Done(add_edge(graph, src, graph.output_node, data))

RECURSIVE join_outputs(_, _, _, _)
join_outputs(st, table, es, i) ==
    IF ~st.ok \/ i > Len(es) THEN st
    ELSE join_outputs(join_output(st.graph, table, es[i].src, es[i].data),
                      table, es, i + 1)

join(first, second, copy) ==
    LET graph == IF copy THEN graph_copy(first) ELSE first
        table == output_table(graph)
        g1 == copy_flow_graph(second, graph)
        s1 == join_inputs(Done(g1), table,
                          out_edges(second, second.input_node), 1)
    IN  join_outputs(s1, table, in_edges(second, second.output_node), 1)

\* ------------------------------------------- flow_graph_to/from_graphml
\* ncopies, had line 130 been left out
ncopies_all(graph, node, obj_id) ==
    Cardinality({i \in 1..Len(graph.edges) :
        graph.edges[i].src = node /\ graph.edges[i].data.id = obj_id})

ncopies(graph, node, obj_id) ==
    Cardinality({i \in 1..Len(graph.edges) :
        /\ graph.edges[i].src = node
        /\ graph.edges[i].tgt # graph.output_node
        /\ graph.edges[i].data.id = obj_id})

PortName(prefix, n) == prefix \o ToString(n)

\* The loop of lines 97-105; st is [graph, ports, ninputs, input_map].
RECURSIVE name_inputs(_, _, _)
name_inputs(st, es, i) ==
    IF i > Len(es) THEN st
    ELSE LET data == es[i].data
             known == data.id \in DOMAIN st.input_map
             ninputs == IF known THEN st.ninputs ELSE st.ninputs + 1
             portname == IF known THEN st.input_map[data.id]
                         ELSE PortName("in:", ninputs)
         IN  name_inputs(
                [graph |-> set_edge_data(st.graph, es[i],
                                [data EXCEPT !.sourceport = portname]),
                 ports |-> IF known THEN st.ports
                           ELSE (portname :> "input") @@ st.ports,
                 ninputs |-> ninputs,
                 input_map |-> IF known THEN st.input_map
                               ELSE (data.id :> portname) @@ st.input_map],
                es, i + 1)

\* The loop of lines 108-117 over the snapshot es of the edges into the
\* output node; st is [graph, ports, noutputs].
RECURSIVE name_outputs(_, _, _, _)
name_outputs(st, option, es, i) ==
    IF i > Len(es) THEN st
    ELSE LET src == es[i].src
             key == es[i].key
             out == st.graph.output_node
             data == edge_data(st.graph, src, out, key)
         IN  IF option = "none"
                \/ (option = "simplify" /\ ncopies(st.graph, src, data.id) > 0)
             THEN name_outputs([st EXCEPT !.graph = remove_edge(@, src, out, key)],
                               option, es, i + 1)
             ELSE LET portname == PortName("out:", st.noutputs + 1)
                  IN  name_outputs(
                         [graph |-> set_edge_data(st.graph, es[i],
                                        [data EXCEPT !.targetport = portname]),
                          ports |-> (portname :> "output") @@ st.ports,
                          noutputs |-> st.noutputs + 1],
                         option, es, i + 1)

flow_graph_to_graphml(graph, option) ==
    LET g0 == graph_copy(graph)
        s1 == name_inputs([graph |-> g0, ports |-> EmptyMap, ninputs |-> 0,
                           input_map |-> EmptyMap],
                          out_edges(g0, g0.input_node), 1)
        s2 == name_outputs([graph |-> s1.graph, ports |-> s1.ports, noutputs |-> 0],
                           option, in_edges(s1.graph, s1.graph.output_node), 1)
    IN  [graph |-> s2.graph, ports |-> s2.ports]

\* del data[port] on each edge of es (lines 145-148); KeyError when absent
RECURSIVE strip_ports(_, _, _, _)
strip_ports(st, es, port, i) ==
    IF ~st.ok \/ i > Len(es) THEN st
    ELSE LET data == edge_data(st.graph, es[i].src, es[i].tgt, es[i].key)
         IN  IF data[port] = NoPort THEN Fail(st.graph)
             ELSE strip_ports(
                     Done(set_edge_data(st.graph, es[i], [data EXCEPT ![port] = NoPort])),
                     es, port, i + 1)

\* flow_graph_from_graphml, had lines 147-148 been left out
flow_graph_from_graphml_inputs(outer) ==
    strip_ports(Done(outer.graph), out_edges(outer.graph, outer.graph.input_node),
                "sourceport", 1)

flow_graph_from_graphml(outer) ==
    LET graph == outer.graph
        s1 == strip_ports(Done(graph), out_edges(graph, graph.input_node),
                          "sourceport", 1)
    IN  strip_ports(s1, in_edges(graph, graph.output_node), "targetport", 1)

\* ------------------------------------------------------------ input graphs
\* Every edge has a source port and a target port, except that the edges out
\* of the input node have no source port and the edges into the output node
\* no target port (flow_graph.py, lines 85-89).  Node identifiers are
\* unique over a graph and its nested graphs.
Ids == {"o1", "o2"}

SourcePort(graph, src) == IF src = graph.input_node THEN NoPort ELSE src \o ".out"

TargetPort(graph, tgt) == IF tgt = graph.output_node THEN NoPort ELSE tgt \o ".in"

EdgeData(graph, src, tgt, id) ==
    [id |-> id, sourceport |-> SourcePort(graph, src),
     targetport |-> TargetPort(graph, tgt)]

A(lvl) == "a" \o ToString(lvl)
B(lvl) == "b" \o ToString(lvl)
N(lvl) == "n" \o ToString(lvl)

RECURSIVE Depth(_)
Depth(graph) ==
    IF DOMAIN graph.sub = {} THEN 0
    ELSE LET n == CHOOSE n \in DOMAIN graph.sub :
                    \A m \in DOMAIN graph.sub : Depth(graph.sub[m]) <= Depth(graph.sub[n])
         IN  1 + Depth(graph.sub[n])

RECURSIVE NumEdgesIn(_, _)
RECURSIVE NumEdges(_)
NumEdgesIn(graph, nodes) ==
    IF nodes = {} THEN 0
    ELSE LET n == CHOOSE n \in nodes : TRUE
         IN  NumEdges(graph.sub[n]) + NumEdgesIn(graph, nodes \ {n})

NumEdges(graph) == Len(graph.edges) + NumEdgesIn(graph, DOMAIN graph.sub)

RECURSIVE UsedIdsIn(_, _)
RECURSIVE UsedIds(_)
UsedIdsIn(graph, nodes) ==
    IF nodes = {} THEN {}
    ELSE LET n == CHOOSE n \in nodes : TRUE
         IN  UsedIds(graph.sub[n]) \cup UsedIdsIn(graph, nodes \ {n})

UsedIds(graph) ==
    {graph.edges[i].data.id : i \in 1..Len(graph.edges)}
        \cup UsedIdsIn(graph, DOMAIN graph.sub)

\* the object identities are interchangeable: "o1" is the first one used
NextIds(used) == IF "o1" \in used THEN Ids ELSE {"o1"}

\* a graph with two call nodes
Atomic(lvl) ==
    [new_flow_graph EXCEPT
        !.nodes = @ \o <<A(lvl), B(lvl)>>,
        !.label = (A(lvl) :> "f") @@ (B(lvl) :> "g")]

\* a graph with two call nodes and a composite node whose body is inner
Nest(inner, lvl) ==
    [new_flow_graph EXCEPT
        !.nodes = @ \o <<A(lvl), N(lvl), B(lvl)>>,
        !.label = (A(lvl) :> "f") @@ (N(lvl) :> "h") @@ (B(lvl) :> "g"),
        !.sub = (N(lvl) :> inner)]

\* the edges drawn in a graph of call nodes
FlatPairs(graph, lvl) ==
    LET in == graph.input_node
        out == graph.output_node
    IN  {<<in, A(lvl)>>, <<in, B(lvl)>>, <<A(lvl), B(lvl)>>, <<A(lvl), out>>,
         <<B(lvl), out>>, <<in, out>>}

\* the edges drawn around a composite node
NestPairs(graph, lvl) ==
    {<<graph.input_node, N(lvl)>>, <<A(lvl), N(lvl)>>, <<N(lvl), B(lvl)>>,
     <<N(lvl), graph.output_node>>}

Pairs(graph) ==
    IF Depth(graph) = 0 THEN FlatPairs(graph, 0) ELSE NestPairs(graph, Depth(graph))

\* ------------------------------------------------------------- the machine
NoResult == Done(new_flow_graph)

NoDiagram == [graph |-> new_flow_graph, ports |-> EmptyMap]

\* no statement has been given to the transformer
NoTrace == stmt = <<>> /\ tree = <<>> /\ run = <<>>

\* --- flatten: a graph is drawn, wrapped into a composite node of an outer
\* graph up to MaxDepth times, and flattened
InitBuild ==
    /\ pc = "build"
    /\ G = Atomic(0)
    /\ S = new_flow_graph
    /\ outputs = "all"
    /\ R = NoResult
    /\ D = NoDiagram
    /\ passed = new_flow_graph
    /\ NoTrace

AddEdge ==
    /\ pc = "build"
    /\ NumEdges(G) < MaxEdges
    /\ \E p \in Pairs(G), id \in NextIds(UsedIds(G)) :
          G' = add_edge(G, p[1], p[2], EdgeData(G, p[1], p[2], id))
    /\ UNCHANGED <<pc, S, outputs, R, D, passed, stmt, tree, run>>

Wrap ==
    /\ pc = "build"
    /\ Depth(G) < MaxDepth
    /\ G' = Nest(G, Depth(G) + 1)
    /\ UNCHANGED <<pc, S, outputs, R, D, passed, stmt, tree, run>>

Flatten ==
    /\ pc = "build"
    /\ pc' = "flattened"
    /\ R' = flatten(G, TRUE)
    /\ passed' = flatten_argument(G)
    /\ UNCHANGED <<G, S, outputs, D, stmt, tree, run>>

NextFlatten == AddEdge \/ Wrap \/ Flatten

SpecFlatten == InitBuild /\ [][NextFlatten]_vars

\* --- join: two graphs of call nodes are drawn, one after the other, and
\* joined
InitJoin ==
    /\ pc = "first"
    /\ G = Atomic(1)
    /\ S = Atomic(2)
    /\ outputs = "all"
    /\ R = NoResult
    /\ D = NoDiagram
    /\ passed = new_flow_graph
    /\ NoTrace

AddFirstEdge ==
    /\ pc = "first"
    /\ NumEdges(G) < MaxEdges
    /\ \E p \in FlatPairs(G, 1), id \in NextIds(UsedIds(G)) :
          G' = add_edge(G, p[1], p[2], EdgeData(G, p[1], p[2], id))
    /\ UNCHANGED <<pc, S, outputs, R, D, passed, stmt, tree, run>>

NextGraph ==
    /\ pc = "first"
    /\ pc' = "second"
    /\ UNCHANGED <<G, S, outputs, R, D, passed, stmt, tree, run>>

AddSecondEdge ==
    /\ pc = "second"
    /\ NumEdges(G) + NumEdges(S) < MaxEdges
    /\ \E p \in FlatPairs(S, 2), id \in NextIds(UsedIds(G) \cup UsedIds(S)) :
          S' = add_edge(S, p[1], p[2], EdgeData(S, p[1], p[2], id))
    /\ UNCHANGED <<pc, G, outputs, R, D, passed, stmt, tree, run>>

Join ==
    /\ pc = "second"
    /\ pc' = "joined"
    /\ R' = join(G, S, TRUE)
    /\ UNCHANGED <<G, S, outputs, D, passed, stmt, tree, run>>

NextJoin == AddFirstEdge \/ NextGraph \/ AddSecondEdge \/ Join

SpecJoin == InitJoin /\ [][NextJoin]_vars

\* --- copy_flow_graph: a destination and a source are drawn, one after the
\* other, and the source is copied into the destination.  Each graph numbers
\* its own nodes, so the source may use node identifiers of the destination
\* (Collide) or not (Atomic(2)).  R is the destination after the call, G the
\* destination before it.
Collide ==
    [new_flow_graph EXCEPT
        !.nodes = @ \o <<A(1), B(1)>>,
        !.label = (A(1) :> "h") @@ (B(1) :> "g")]

\* the edges drawn in a graph whose call nodes are its third and fourth node
CallPairs(graph) ==
    LET in == graph.input_node
        out == graph.output_node
        a == graph.nodes[3]
        b == graph.nodes[4]
    IN  {<<in, a>>, <<in, b>>, <<a, b>>, <<a, out>>, <<b, out>>, <<in, out>>}

InitCopy ==
    /\ pc = "first"
    /\ G = Atomic(1)
    /\ S \in {Atomic(2), Collide}
    /\ outputs = "all"
    /\ R = NoResult
    /\ D = NoDiagram
    /\ passed = new_flow_graph
    /\ NoTrace

AddSourceEdge ==
    /\ pc = "second"
    /\ NumEdges(G) + NumEdges(S) < MaxEdges
    /\ \E p \in CallPairs(S), id \in NextIds(UsedIds(G) \cup UsedIds(S)) :
          S' = add_edge(S, p[1], p[2], EdgeData(S, p[1], p[2], id))
    /\ UNCHANGED <<pc, G, outputs, R, D, passed, stmt, tree, run>>

CopyInto ==
    /\ pc = "second"
    /\ pc' = "copied"
    /\ R' = Done(copy_flow_graph(S, G))
    /\ UNCHANGED <<G, S, outputs, D, passed, stmt, tree, run>>

NextCopy == AddFirstEdge \/ NextGraph \/ AddSourceEdge \/ CopyInto

SpecCopy == InitCopy /\ [][NextCopy]_vars

\* --- wiring diagrams: a graph of call nodes is drawn, prepared for
\* serialization under one of the three output options, and read back
Options == {"all", "simplify", "none"}

ToDiagram ==
    /\ pc = "build"
    /\ DOMAIN G.sub = {}
    /\ pc' = "diagram"
    /\ \E option \in Options :
          /\ outputs' = option
          /\ D' = flow_graph_to_graphml(G, option)
    /\ UNCHANGED <<G, S, R, passed, stmt, tree, run>>

FromDiagram ==
    /\ pc = "diagram"
    /\ pc' = "restored"
    /\ R' = flow_graph_from_graphml(D)
    /\ UNCHANGED <<G, S, outputs, D, passed, stmt, tree, run>>

NextDiagram == AddEdge \/ ToDiagram \/ FromDiagram

SpecDiagram == InitBuild /\ [][NextDiagram]_vars

\* ------------------------------------------------------ reading the graphs
CallNodes(graph) ==
    NodeSet(graph) \ ({graph.input_node, graph.output_node} \cup DOMAIN graph.sub)

EdgeIdx(graph) == 1..Len(graph.edges)

EdgeSet(graph) == {graph.edges[i] : i \in EdgeIdx(graph)}

\* the same nodes, node attributes and edges (with keys and attributes)
SameGraph(g1, g2) ==
    /\ NodeSet(g1) = NodeSet(g2)
    /\ g1.label = g2.label
    /\ g1.sub = g2.sub
    /\ EdgeSet(g1) = EdgeSet(g2)
    /\ g1.input_node = g2.input_node
    /\ g1.output_node = g2.output_node

CountBetween(graph, u, v, d) ==
    Cardinality({i \in EdgeIdx(graph) :
        graph.edges[i].src = u /\ graph.edges[i].tgt = v /\ graph.edges[i].data = d})

DataBetween(graph, u, v) ==
    {graph.edges[i].data : i \in {j \in EdgeIdx(graph) :
        graph.edges[j].src = u /\ graph.edges[j].tgt = v}}

\* the parent edges into (out of) node n that carry object o
InCarrying(graph, n, o) ==
    {i \in EdgeIdx(graph) : graph.edges[i].tgt = n /\ graph.edges[i].data.id = o}

OutCarrying(graph, n, o) ==
    {i \in EdgeIdx(graph) : graph.edges[i].src = n /\ graph.edges[i].data.id = o}

RECURSIVE WellFormedIn(_, _)
RECURSIVE WellFormed(_)
WellFormedIn(graph, nodes) ==
    \A n \in nodes : WellFormed(graph.sub[n])

\* both sentinels present, an id on every edge, no source port on the edges
\* out of the input node, no target port on the edges into the output node
WellFormed(graph) ==
    /\ {graph.input_node, graph.output_node} \subseteq NodeSet(graph)
    /\ \A i \in EdgeIdx(graph) :
          LET e == graph.edges[i]
          IN  /\ e.data.id \in Ids
              /\ e.src = graph.input_node => e.data.sourceport = NoPort
              /\ e.tgt = graph.output_node => e.data.targetport = NoPort
    /\ WellFormedIn(graph, DOMAIN graph.sub)

Flattened == pc = "flattened" /\ R.ok

\* ------------------------------------------------------------------ flatten
\* C1: the flattened graph has no node that carries a nested graph, and
\* flattening it again gives the same nodes, edges and attributes.
FlattenIdempotent ==
    Flattened =>
        /\ DOMAIN R.graph.sub = {}
        /\ LET again == flatten(R.graph, TRUE)
           IN  again.ok /\ SameGraph(again.graph, R.graph)

WitnessFlattenIdempotent ==
    /\ Flattened
    /\ Depth(G) = 2
    /\ Len(G.edges) > 0
    /\ Len(R.graph.edges) > 1

\* C2: an edge in(H) -> t of the nested graph H of n carrying an object o that
\* no parent edge into n carries becomes an edge from the parent's input node
\* to t with the identity and attributes of H's edge, whatever other edges
\* enter n.
FallbackInputEdge ==
    Flattened =>
        \A n \in DOMAIN G.sub : \A i \in EdgeIdx(G.sub[n]) :
            LET H == G.sub[n]
                e == H.edges[i]
            IN  (/\ e.src = H.input_node
                 /\ e.tgt \in CallNodes(H)
                 /\ InCarrying(G, n, e.data.id) = {})
                => \E k \in EdgeIdx(R.graph) :
                      /\ R.graph.edges[k].src = G.input_node
                      /\ R.graph.edges[k].tgt = e.tgt
                      /\ R.graph.edges[k].data = e.data

\* C3: an edge in(H) -> t carrying an object o that a parent edge src -> n
\* carries becomes an edge src -> t with the target port of H's edge and the
\* other attributes of the parent edge; no edge from the parent's input node
\* to t carries o (unless a parent edge carrying o enters n from there); n
\* and its edges are gone.
RedirectedInputEdge ==
    Flattened =>
        \A n \in DOMAIN G.sub : \A i \in EdgeIdx(G.sub[n]) :
            LET H == G.sub[n]
                e == H.edges[i]
                pes == InCarrying(G, n, e.data.id)
            IN  (e.src = H.input_node /\ e.tgt \in CallNodes(H) /\ pes # {})
                => /\ \E j \in pes : \E k \in EdgeIdx(R.graph) :
                          /\ R.graph.edges[k].src = G.edges[j].src
                          /\ R.graph.edges[k].tgt = e.tgt
                          /\ R.graph.edges[k].data =
                                [G.edges[j].data EXCEPT
                                    !.targetport = e.data.targetport]
                   /\ (\A j \in pes : G.edges[j].src # G.input_node)
                      => ~\E k \in EdgeIdx(R.graph) :
                              /\ R.graph.edges[k].src = G.input_node
                              /\ R.graph.edges[k].tgt = e.tgt
                              /\ R.graph.edges[k].data.id = e.data.id
                   /\ n \notin NodeSet(R.graph)
                   /\ \A k \in EdgeIdx(R.graph) :
                          R.graph.edges[k].src # n /\ R.graph.edges[k].tgt # n

\* the nested graph of n as it is when it is inlined (flat)
Inlined(n) == flatten(G.sub[n], FALSE).graph

\* the pairs (edge s -> out(H), parent edge n -> t) that carry the same object
OutputMatches(H, n, s, t) ==
    {p \in EdgeIdx(H) \X EdgeIdx(G) :
        /\ H.edges[p[1]].src = s /\ H.edges[p[1]].tgt = H.output_node
        /\ G.edges[p[2]].src = n /\ G.edges[p[2]].tgt = t
        /\ H.edges[p[1]].data.id = G.edges[p[2]].data.id}

OutputMatchData(H, p) ==
    [G.edges[p[2]].data EXCEPT !.sourceport = H.edges[p[1]].data.sourceport]

\* an object carried between call nodes of H, by no edge out of in(H) and by
\* no edge of the parent
InternalOnly(H, o) ==
    /\ \E i \in EdgeIdx(H) :
          /\ H.edges[i].data.id = o
          /\ H.edges[i].src \in CallNodes(H) /\ H.edges[i].tgt \in CallNodes(H)
    /\ \A i \in EdgeIdx(H) : H.edges[i].src = H.input_node => H.edges[i].data.id # o
    /\ \A j \in EdgeIdx(G) : G.edges[j].data.id # o

\* C4: the edges from a call node s of H to a node t of the parent are
\* exactly one per pair of an edge s -> out(H) and a parent edge n -> t that
\* carry the same object, with H's source port and the parent edge's other
\* attributes; the edges between call nodes of H are kept; an object that
\* stays inside H is on no edge at a sentinel of the flattened graph.
OutputEdgesExact ==
    Flattened =>
        \A n \in DOMAIN G.sub :
            LET H == Inlined(n)
            IN  /\ \A s \in CallNodes(H) :
                      /\ \A t \in NodeSet(G) \ {n} :
                            LET ms == OutputMatches(H, n, s, t)
                            IN  \A d \in DataBetween(R.graph, s, t)
                                    \cup {OutputMatchData(H, p) : p \in ms} :
                                  CountBetween(R.graph, s, t, d) =
                                    Cardinality({p \in ms : OutputMatchData(H, p) = d})
                      /\ \A t \in CallNodes(H) :
                            \A d \in DataBetween(R.graph, s, t) \cup DataBetween(H, s, t) :
                                CountBetween(R.graph, s, t, d) = CountBetween(H, s, t, d)
                /\ \A o \in Ids :
                      InternalOnly(H, o) =>
                        \A k \in EdgeIdx(R.graph) :
                            R.graph.edges[k].data.id = o =>
                                {R.graph.edges[k].src, R.graph.edges[k].tgt}
                                    \cap {G.input_node, G.output_node} = {}

WitnessOutputEdgesExact ==
    /\ Flattened
    /\ \E n \in DOMAIN G.sub : \E s \in CallNodes(Inlined(n)) :
          /\ OutputMatches(Inlined(n), n, s, G.output_node) # {}
          /\ OutputMatches(Inlined(n), n, s, B(Depth(G))) # {}

\* C8 (flatten): flatten completes on every well-formed graph.
FlattenCompletes == (pc = "flattened" /\ WellFormed(G)) => R.ok

\* --------------------------------------------------------------------- join
Joined == pc = "joined" /\ R.ok

\* the output table join builds, from its copy of first
FirstTable == output_table(graph_copy(G))

\* the edges of the result that are neither edges of first nor start at a
\* call node of second, into t and carrying o
NewInto(t, o) ==
    {e \in EdgeSet(R.graph) :
        /\ e.tgt = t /\ e.data.id = o
        /\ e \notin EdgeSet(G)
        /\ e.src \notin CallNodes(S)}

InputsCarrying(t, o) ==
    {i \in EdgeIdx(S) :
        S.edges[i].src = S.input_node /\ S.edges[i].tgt = t /\ S.edges[i].data.id = o}

\* C5: each edge in(second) -> t carrying o yields exactly one new edge into
\* t carrying o: from the source of first's output edge for o, with its
\* source port, when o reaches out(first), from in(first) otherwise; no edge
\* of the result starts at a sentinel of second that is not a sentinel of the
\* result.
JoinInputEdges ==
    Joined =>
        /\ \A t \in NodeSet(S) \ {S.input_node} : \A o \in Ids :
              LET table == FirstTable
                  new == NewInto(t, o)
              IN  /\ Cardinality(new) = Cardinality(InputsCarrying(t, o))
                  /\ \A e \in new :
                        IF o \in DOMAIN table
                        THEN /\ e.src = table[o][1]
                             /\ e.data.sourceport =
                                   edge_data(G, table[o][1], G.output_node,
                                             table[o][2]).sourceport
                        ELSE e.src = G.input_node /\ e.data.sourceport = NoPort
        /\ \A e \in EdgeSet(R.graph) :
              e.src \notin {S.input_node, S.output_node}
                              \ {R.graph.input_node, R.graph.output_node}

\* first lists call node nodeA (key k) for o in its output table and second
\* reads o at its call node t
ReadsOutput(o, nodeA, i) ==
    /\ o \in DOMAIN FirstTable
    /\ FirstTable[o][1] = nodeA
    /\ nodeA \in CallNodes(G)
    /\ S.edges[i].src = S.input_node
    /\ S.edges[i].tgt \in CallNodes(S)
    /\ S.edges[i].data.id = o

ConnectedDirectly(o, nodeA, i) ==
    \E e \in EdgeSet(R.graph) :
        /\ e.src = nodeA /\ e.tgt = S.edges[i].tgt
        /\ e.data = [S.edges[i].data EXCEPT !.sourceport =
                        edge_data(G, nodeA, G.output_node,
                                  FirstTable[o][2]).sourceport]

UniqueOutputs(graph) ==
    \A i, j \in EdgeIdx(graph) :
        (/\ graph.edges[i].tgt = graph.output_node
         /\ graph.edges[j].tgt = graph.output_node
         /\ graph.edges[i].data.id = graph.edges[j].data.id) => i = j

OutputIds(graph) ==
    {graph.edges[i].data.id : i \in {j \in EdgeIdx(graph) :
        graph.edges[j].tgt = graph.output_node}}

\* the output edges that join is to leave in the result, as (source, data)
ExpectedOutputs ==
    {<<S.edges[i].src, S.edges[i].data>> :
        i \in {j \in EdgeIdx(S) : S.edges[j].tgt = S.output_node}}
    \cup
    {<<G.edges[i].src, G.edges[i].data>> :
        i \in {j \in EdgeIdx(G) :
            G.edges[j].tgt = G.output_node /\ G.edges[j].data.id \notin OutputIds(S)}}

\* C7: when first and second have at most one output edge per object, the
\* output edges of the result are the output edges of second and the output
\* edges of first for the objects second does not output, and again at most
\* one per object.
JoinOutputEdges ==
    (Joined /\ UniqueOutputs(G) /\ UniqueOutputs(S)) =>
        /\ {<<R.graph.edges[i].src, R.graph.edges[i].data>> :
               i \in {j \in EdgeIdx(R.graph) :
                   R.graph.edges[j].tgt = R.graph.output_node}} = ExpectedOutputs
        /\ UniqueOutputs(R.graph)

\* C8 (join): join completes on every pair of well-formed graphs.
JoinCompletes == (pc = "joined" /\ WellFormed(G) /\ WellFormed(S)) => R.ok

\* ---------------------------------------------------------- wiring diagrams
\* C9: reading back the diagram made with outputs = 'all' gives the nodes,
\* edges and attributes of the graph.
DiagramRoundTrip ==
    (pc = "restored" /\ outputs = "all") => (R.ok /\ SameGraph(R.graph, G))

WitnessDiagramRoundTrip ==
    /\ pc = "restored" /\ outputs = "all"
    /\ \E i, j \in EdgeIdx(G) :
          /\ G.edges[i].src = G.input_node /\ G.edges[i].tgt # G.output_node
          /\ G.edges[j].tgt = G.output_node /\ G.edges[j].src # G.input_node

HasCopy(graph, src, o) ==
    \E i \in EdgeIdx(graph) :
        /\ graph.edges[i].src = src
        /\ graph.edges[i].tgt # graph.output_node
        /\ graph.edges[i].data.id = o

\* C10: with 'none' no edge into the output node remains; with 'simplify'
\* the output edge src -> out carrying o is removed iff an edge from src to
\* another node than the output node carries o; with 'all' every output edge
\* is kept; the edges between call nodes are always retained.
DiagramPruning ==
    pc = "diagram" =>
        /\ \A e \in EdgeSet(G) :
              e.tgt = G.output_node =>
                (has_edge(D.graph, e.src, e.tgt, e.key)
                 <=> \/ outputs = "all"
                     \/ outputs = "simplify" /\ ~HasCopy(G, e.src, e.data.id))
        /\ \A e \in EdgeSet(D.graph) :
              /\ \E f \in EdgeSet(G) :
                    /\ f.src = e.src /\ f.tgt = e.tgt /\ f.key = e.key
                    /\ f.data.id = e.data.id
              /\ (outputs = "none" => e.tgt # D.graph.output_node)
        /\ \A e \in EdgeSet(G) :
              (e.src \in CallNodes(G) /\ e.tgt \in CallNodes(G))
                => e \in EdgeSet(D.graph)
        /\ NodeSet(D.graph) = NodeSet(G)

WitnessDiagramPruning ==
    /\ pc = "diagram" /\ outputs = "simplify"
    /\ \E e, f \in EdgeSet(G) :
          /\ e.tgt = G.output_node /\ ~has_edge(D.graph, e.src, e.tgt, e.key)
          /\ f.tgt = G.output_node /\ has_edge(D.graph, f.src, f.tgt, f.key)
          /\ \E b \in EdgeSet(D.graph) :
                b.src = e.src /\ b.tgt \in CallNodes(G) /\ b.data.id = e.data.id

\* the edges out of the input node of the graph in the order in which the
\* loop of line 97 meets them, and the edges out of the input node and into
\* the output node that the diagram has
GraphInputs == out_edges(graph_copy(G), G.input_node)

DiagramInputs == out_edges(D.graph, D.graph.input_node)

DiagramOutputs == in_edges(D.graph, D.graph.output_node)

InputIds == {GraphInputs[i].data.id : i \in 1..Len(GraphInputs)}

\* the rank of object o among the objects on the edges out of in(G), in
\* first-seen order
FirstSeen(o) ==
    LET first == first_carrying(GraphInputs, o)
    IN  Cardinality({GraphInputs[j].data.id : j \in 1..first})

\* C11: the input edges carry exactly the names in:1..in:k, k the number of
\* distinct objects on the edges out of in(G), numbered in first-seen order,
\* two edges the same name iff they carry the same object; the retained
\* output edges carry the names out:1..out:m in encounter order, one each;
\* the port table has exactly these k + m entries, with their kinds.
DiagramPortNames ==
    pc = "diagram" =>
        LET ins == DiagramInputs
            outs == DiagramOutputs
            k == Cardinality(InputIds)
            m == Len(outs)
        IN  /\ {ins[i].data.sourceport : i \in 1..Len(ins)}
                  = {PortName("in:", j) : j \in 1..k}
            /\ \A i \in 1..Len(ins) :
                  ins[i].data.sourceport = PortName("in:", FirstSeen(ins[i].data.id))
            /\ \A i, j \in 1..Len(ins) :
                  (ins[i].data.sourceport = ins[j].data.sourceport)
                    <=> (ins[i].data.id = ins[j].data.id)
            /\ \A i \in 1..m : outs[i].data.targetport = PortName("out:", i)
            /\ DOMAIN D.ports = {PortName("in:", j) : j \in 1..k}
                                  \cup {PortName("out:", j) : j \in 1..m}
            /\ \A j \in 1..k : D.ports[PortName("in:", j)] = "input"
            /\ \A j \in 1..m : D.ports[PortName("out:", j)] = "output"

\* --------------------------------------------------------- copy_flow_graph
Inner(graph) == NodeSet(graph) \ {graph.input_node, graph.output_node}

\* the edges of the source that touch neither of its sentinels
InnerEdges(graph) ==
    {i \in EdgeIdx(graph) :
        graph.edges[i].src \in Inner(graph) /\ graph.edges[i].tgt \in Inner(graph)}

\* every non-sentinel node of the source is in the destination with the
\* source's attributes, and every edge of the source between such nodes has
\* been added with its attributes
SourceAdded ==
    /\ \A n \in Inner(S) :
          /\ n \in NodeSet(R.graph)
          /\ n \in DOMAIN S.label
                => (n \in DOMAIN R.graph.label /\ R.graph.label[n] = S.label[n])
          /\ n \in DOMAIN S.sub
                => (n \in DOMAIN R.graph.sub /\ R.graph.sub[n] = S.sub[n])
    /\ \A u, v \in Inner(S) :
          \A d \in DataBetween(R.graph, u, v) \cup DataBetween(S, u, v) :
              CountBetween(R.graph, u, v, d)
                  = CountBetween(G, u, v, d) + CountBetween(S, u, v, d)
    /\ NodeSet(R.graph) = NodeSet(G) \cup Inner(S)
    /\ Len(R.graph.edges) = Len(G.edges) + Cardinality(InnerEdges(S))

\* every node, node attribute and edge (with key and attributes) that the
\* destination had is still there, with the same value
DestKept ==
    /\ NodeSet(G) \subseteq NodeSet(R.graph)
    /\ \A n \in DOMAIN G.label :
          n \in DOMAIN R.graph.label /\ R.graph.label[n] = G.label[n]
    /\ \A n \in DOMAIN G.sub :
          n \in DOMAIN R.graph.sub /\ R.graph.sub[n] = G.sub[n]
    /\ EdgeSet(G) \subseteq EdgeSet(R.graph)
    /\ R.graph.input_node = G.input_node
    /\ R.graph.output_node = G.output_node

\* C12: copy_flow_graph adds the non-sentinel nodes of the source and the
\* edges of the source that touch no sentinel, with their attributes, and
\* everything the destination had before is still there with the same value,
\* also when the source uses a node identifier of the destination.
CopyIntoFrame == pc = "copied" => (SourceAdded /\ DestKept)

\* ------------------------------------------------- the arguments of flatten
RECURSIVE SameDeep(_, _)
\* the same nodes, edges and attributes, in the nested graphs at every depth too
SameDeep(g1, g2) ==
    /\ NodeSet(g1) = NodeSet(g2)
    /\ g1.label = g2.label
    /\ EdgeSet(g1) = EdgeSet(g2)
    /\ g1.input_node = g2.input_node
    /\ g1.output_node = g2.output_node
    /\ DOMAIN g1.sub = DOMAIN g2.sub
    /\ \A n \in DOMAIN g1.sub : SameDeep(g1.sub[n], g2.sub[n])

\* C19: after flatten(G) with the default copy option, G and its nested
\* graphs at every depth have the nodes, edges and attributes they had.
FlattenLeavesInput == pc = "flattened" => SameDeep(passed, G)

\* both sentinels present, no source port on an edge out of the input node,
\* no target port on an edge into the output node
SentinelPorts(graph) ==
    /\ {graph.input_node, graph.output_node} \subseteq NodeSet(graph)
    /\ \A e \in EdgeSet(graph) :
          /\ e.src = graph.input_node => e.data.sourceport = NoPort
          /\ e.tgt = graph.output_node => e.data.targetport = NoPort

\* C20 (flatten): when G and its nested graphs keep the sentinel-port
\* invariant, so does flatten(G).
FlattenKeepsSentinelPorts ==
    (Flattened /\ WellFormed(G)) => SentinelPorts(R.graph)

\* C20 (join): when first and second keep the sentinel-port invariant, so
\* does join(first, second).
JoinKeepsSentinelPorts ==
    (Joined /\ WellFormed(G) /\ WellFormed(S)) => SentinelPorts(R.graph)

\* ======================================================================
\* ASTTraceTransformer and ASTTracer (flowgraph/trace/ast_tracer.py)
\* ======================================================================
\* A syntax tree is a record whose field type names the class of ast; the
\* other fields are the fields of that class.  The transformer is modelled
\* as of Python 3.5 and later (ast_has_starred, line 27): a splat argument is
\* a Starred node among call.args, a double-splat argument a keyword whose
\* arg is None, and lines 179-185 are not run.
MaxArgs == 3
MaxCalls == 2

None == "None"

Load == "Load"
Store == "Store"
Del == "Del"

Name(id, ctx) == [type |-> "Name", id |-> id, ctx |-> ctx]

Num(n) == [type |-> "Num", n |-> n]

Str(s) == [type |-> "Str", s |-> s]

NameConstant(value) == [type |-> "NameConstant", value |-> value]

Attribute(value, attr, ctx) ==
    [type |-> "Attribute", value |-> value, attr |-> attr, ctx |-> ctx]

Call(func, args, keywords) ==
    [type |-> "Call", func |-> func, args |-> args, keywords |-> keywords]

keyword(arg, value) == [type |-> "keyword", arg |-> arg, value |-> value]

Starred(value, ctx) == [type |-> "Starred", value |-> value, ctx |-> ctx]

Tuple(elts, ctx) == [type |-> "Tuple", elts |-> elts, ctx |-> ctx]

List(elts, ctx) == [type |-> "List", elts |-> elts, ctx |-> ctx]

Assign(targets, value) == [type |-> "Assign", targets |-> targets, value |-> value]

Delete(targets) == [type |-> "Delete", targets |-> targets]

Expr(value) == [type |-> "Expr", value |-> value]

\* The text of a call, f(a1, ..., an): its arguments in the order in which
\* they are written, each an ordinary ("pos"), splat ("star"), keyword ("kw")
\* or double-splat ("dstar") argument.
Arg(kind, name, value) == [kind |-> kind, name |-> name, value |-> value]

CallSite(func, items) == [type |-> "CallSite", func |-> func, items |-> items]

Positional(items) == SelectSeq(items, LAMBDA it : it.kind \in {"pos", "star"})

Keywords(items) == SelectSeq(items, LAMBDA it : it.kind \in {"kw", "dstar"})

\* ast.parse: a call's ordinary and splat arguments go to call.args, its
\* keyword and double-splat arguments to call.keywords, each list in the
\* order of the text.
RECURSIVE parse(_)
parse(node) ==
    CASE node.type = "CallSite" ->
            LET pos == Positional(node.items)
                kws == Keywords(node.items)
            IN  Call(parse(node.func),
                     [i \in 1..Len(pos) |->
                        IF pos[i].kind = "star"
                        THEN Starred(parse(pos[i].value), Load)
                        ELSE parse(pos[i].value)],
                     [i \in 1..Len(kws) |->
                        keyword(IF kws[i].kind = "dstar" THEN None ELSE kws[i].name,
                                parse(kws[i].value))])
      [] node.type \in {"Tuple", "List"} ->
            [node EXCEPT !.elts = [i \in 1..Len(@) |-> parse(@[i])]]
      [] node.type \in {"Attribute", "Starred", "Expr"} ->
            [node EXCEPT !.value = parse(@)]
      [] node.type = "Assign" ->
            [node EXCEPT !.value = parse(@)]
      [] OTHER -> node

\* --- ast_transform (to_name, to_attribute, to_call, to_list, to_tuple,
\* to_name_constant): constructors of Load-context nodes
to_name(id) == Name(id, Load)

to_attribute(value, attr) == Attribute(value, attr, Load)

to_call(func, args, keywords) == Call(func, args, keywords)

to_list(elts) == List(elts, Load)

to_tuple(elts) == Tuple(elts, Load)

to_name_constant(value) == NameConstant(value)

\* --- ASTTraceTransformer
\* self.tracer (line 121)
Tracer == to_name("__tracer__")

tracer_method(method, private) ==
    to_attribute(Tracer, IF private THEN "_" \o method ELSE method)

\* self._state: visit (line 134) clears it, visit_with_state (lines 140-141)
\* sets it, and visit_Call and visit_Name read it first thing, with False for
\* a key that is absent.  It is passed along with the node it is set for.
Cleared == [boxed |-> FALSE, multiple_values |-> FALSE]

RECURSIVE dispatch(_, _)

visit(node) == dispatch(node, Cleared)

visit_with_state(node, boxed, multiple_values) ==
    dispatch(node, [boxed |-> boxed, multiple_values |-> multiple_values])

\* visit_argument, had lines 209-210 been left out
visit_argument_unnamed(arg_value, arg_name, nstars0) ==
    LET starred == arg_value.type = "Starred"
        value == IF starred THEN arg_value.value ELSE arg_value
        nstars == IF starred THEN 1 ELSE nstars0
        keywords == IF nstars # 0 THEN <<keyword("nstars", Num(nstars))>> ELSE <<>>
        call == to_call(tracer_method("trace_argument", FALSE),
                        <<visit_with_state(value, TRUE, FALSE)>>, keywords)
    IN  IF starred THEN Starred(call, Load) ELSE call

visit_argument(arg_value, arg_name, nstars0) ==
    LET starred == arg_value.type = "Starred"
        value == IF starred THEN arg_value.value ELSE arg_value
        nstars == IF starred THEN 1 ELSE nstars0
        args == <<visit_with_state(value, TRUE, FALSE)>>
                    \o (IF arg_name # None THEN <<Str(arg_name)>> ELSE <<>>)
        keywords == IF nstars # 0 THEN <<keyword("nstars", Num(nstars))>> ELSE <<>>
        call == to_call(tracer_method("trace_argument", FALSE), args, keywords)
    IN  IF starred THEN Starred(call, Load) ELSE call

\* visit_Call, had line 175 counted the positional arguments only
visit_Call_positional(call, state) ==
    LET func == visit(call.func)
        args == [i \in 1..Len(call.args) |-> visit_argument(call.args[i], None, 0)]
        keywords == [i \in 1..Len(call.keywords) |->
                        keyword(call.keywords[i].arg,
                                visit_argument(call.keywords[i].value,
                                               call.keywords[i].arg,
                                               IF call.keywords[i].arg = None
                                               THEN 2 ELSE 0))]
    IN  to_call(tracer_method("trace_return", state.boxed),
                <<to_call(to_call(tracer_method("trace_function", FALSE),
                                  <<func, Num(Len(args))>>, <<>>),
                          args, keywords),
                  to_name_constant(state.multiple_values)>>,
                <<>>)

visit_Call(call, state) ==
    LET boxed == state.boxed
        multiple_values == state.multiple_values
        func == visit(call.func)
        args == [i \in 1..Len(call.args) |-> visit_argument(call.args[i], None, 0)]
        keywords == [i \in 1..Len(call.keywords) |->
                        keyword(call.keywords[i].arg,
                                visit_argument(call.keywords[i].value,
                                               call.keywords[i].arg,
                                               IF call.keywords[i].arg = None
                                               THEN 2 ELSE 0))]
        nargs == Len(args) + Len(keywords)
    IN  to_call(tracer_method("trace_return", boxed),
                <<to_call(to_call(tracer_method("trace_function", FALSE),
                                  <<func, Num(nargs)>>, <<>>),
                          args, keywords),
                  to_name_constant(multiple_values)>>,
                <<>>)

\* visit_Name, had line 229 taken every read for a boxed one
visit_Name_boxed(name, state) ==
    IF name.ctx = Load
    THEN to_call(tracer_method("trace_access", TRUE), <<Str(name.id), name>>, <<>>)
    ELSE name

visit_Name(name, state) ==
    IF name.ctx = Load
    THEN to_call(tracer_method("trace_access", state.boxed),
                 <<Str(name.id), name>>, <<>>)
    ELSE name

\* NodeTransformer.generic_visit: every child node is replaced by its visit
generic_visit(node) ==
    CASE node.type \in {"Tuple", "List"} ->
            [node EXCEPT !.elts = [i \in 1..Len(@) |-> visit(@[i])]]
      [] node.type \in {"Attribute", "Starred", "Expr"} ->
            [node EXCEPT !.value = visit(@)]
      [] node.type = "Delete" ->
            [node EXCEPT !.targets = [i \in 1..Len(@) |-> visit(@[i])]]
      [] OTHER -> node

\* NodeTransformer.visit: the method visit_<class>, generic_visit without one
dispatch(node, state) ==
    CASE node.type = "Call" -> visit_Call(node, state)
      [] node.type = "Name" -> visit_Name(node, state)
      [] OTHER -> generic_visit(node)

\* what a visit of a statement gives: the statements that replace it, or the
\* exception raised
Rewritten(body) == [ok |-> TRUE, body |-> body, error |-> ""]

Raised(error) == [ok |-> FALSE, body |-> <<>>, error |-> error]

NameError == "NameError: name 'target' is not defined"

TypeError == "TypeError: Unsupported assignment target"

\* index of the first result of rs that is an exception, 0 when there is none
first_raised(rs) ==
    IF \E i \in 1..Len(rs) : ~rs[i].ok
    THEN CHOOSE i \in 1..Len(rs) : ~rs[i].ok /\ \A j \in 1..(i - 1) : rs[j].ok
    ELSE 0

\* Lines 264-271.  The test of line 268 reads the name `target`, which is
\* bound nowhere: a node that is neither a Name nor a Tuple raises NameError
\* there, and lines 269-271 are never reached.
RECURSIVE target_to_literal(_)
target_to_literal(node) ==
    IF node.type = "Name" THEN Rewritten(Str(node.id))
    ELSE IF node.type = "Tuple"
    THEN LET rs == [i \in 1..Len(node.elts) |-> target_to_literal(node.elts[i])]
             bad == first_raised(rs)
         IN  IF bad # 0 THEN rs[bad]
             ELSE Rewritten(to_tuple([i \in 1..Len(rs) |-> rs[i].body]))
    ELSE Raised(NameError)

\* visit_Assign, had line 252 asked for all targets where it asks for any
visit_Assign_all(node) ==
    LET rs == [i \in 1..Len(node.targets) |-> target_to_literal(node.targets[i])]
        bad == first_raised(rs)
        targets_literal == to_list([i \in 1..Len(rs) |-> rs[i].body])
        multiple_values == \A i \in 1..Len(rs) : rs[i].body.type # "Str"
    IN  IF bad # 0 THEN rs[bad]
        ELSE Rewritten(<<[node EXCEPT !.value =
                to_call(tracer_method("trace_assign", FALSE),
                        <<targets_literal,
                          visit_with_state(node.value, TRUE, multiple_values)>>,
                        <<>>)]>>)

visit_Assign(node) ==
    LET rs == [i \in 1..Len(node.targets) |-> target_to_literal(node.targets[i])]
        bad == first_raised(rs)
        targets_literal == to_list([i \in 1..Len(rs) |-> rs[i].body])
        multiple_values == \E i \in 1..Len(rs) : rs[i].body.type # "Str"
    IN  IF bad # 0 THEN rs[bad]
        ELSE Rewritten(<<[node EXCEPT !.value =
                to_call(tracer_method("trace_assign", FALSE),
                        <<targets_literal,
                          visit_with_state(node.value, TRUE, multiple_values)>>,
                        <<>>)]>>)

\* visit_Delete, had lines 288-291 put the statement before the callback
visit_Delete_after(node) ==
    LET visited == generic_visit(node)
        names == SelectSeq(visited.targets, LAMBDA n : n.type = "Name")
        names_node == to_list([i \in 1..Len(names) |-> Str(names[i].id)])
    IN  Rewritten(<<visited,
                    Expr(to_call(tracer_method("trace_delete", FALSE),
                                 <<names_node>>, <<>>))>>)

visit_Delete(node) ==
    LET visited == generic_visit(node)
        names == SelectSeq(visited.targets, LAMBDA n : n.type = "Name")
        names_node == to_list([i \in 1..Len(names) |-> Str(names[i].id)])
    IN  Rewritten(<<Expr(to_call(tracer_method("trace_delete", FALSE),
                                 <<names_node>>, <<>>)),
                    visited>>)

\* ASTTraceTransformer.visit on a statement
visit_statement(node) ==
    CASE node.type = "Assign" -> visit_Assign(node)
      [] node.type = "Delete" -> visit_Delete(node)
      [] OTHER -> Rewritten(<<generic_visit(node)>>)

\* --- ASTTracer and the execution of a rewritten statement
\* A value at run time: the value of the original program, in a BoxedValue
\* or not; event is the index in the log of the callback that boxed it.
Plain(value) == [boxed |-> FALSE, value |-> value, event |-> 0]

BoxedValue(value, event) == [boxed |-> TRUE, value |-> value, event |-> event]

\* ASTTracer._unbox (line 112)
unbox(x) == IF x.boxed THEN Plain(x.value) ELSE x

\* A _trace_* method (lines 68-107): the base class returns its argument; a
\* subclass may return it in a BoxedValue that refers to the event.
private_result(x, event, boxing) ==
    IF boxing THEN BoxedValue(x.value, event) ELSE x

\* the trace_* method (lines 38-66) unboxes what the _trace_* method returns
callback_result(private, x, event, boxing) ==
    IF private THEN private_result(x, event, boxing)
    ELSE unbox(private_result(x, event, boxing))

\* An entry of the log: a callback on the tracer (cb the method's name without
\* the underscore, private whether the _trace_ variant was called), or a step
\* of the original program: "call" (the real call), "expr" (a tuple or an
\* attribute is computed), "bind", "unbind".  value is the value given or
\* made, boxed whether a BoxedValue was given.
Entry(cb, private, name, x, n, flag) ==
    [cb |-> cb, private |-> private, name |-> name, value |-> x.value,
     boxed |-> x.boxed, event |-> x.event, n |-> n, flag |-> flag]

RECURSIVE JoinStr(_, _)
JoinStr(strs, i) ==
    IF i > Len(strs) THEN ""
    ELSE IF i = Len(strs) THEN strs[i]
    ELSE strs[i] \o ", " \o JoinStr(strs, i + 1)

\* ast.literal_eval of a literal of names, written as Python writes it
RECURSIVE Literal(_)
Literal(node) ==
    CASE node.type = "Str" -> "'" \o node.s \o "'"
      [] node.type = "Tuple" ->
            "(" \o JoinStr([i \in 1..Len(node.elts) |-> Literal(node.elts[i])], 1) \o ")"
      [] node.type = "List" ->
            "[" \o JoinStr([i \in 1..Len(node.elts) |-> Literal(node.elts[i])], 1) \o "]"

IsCallback(func) ==
    /\ func.type = "Attribute"
    /\ func.value.type = "Name"
    /\ func.value.id = Tracer.id

IsPrivate(method) == method \in {"_trace_return", "_trace_access"}

Method(method) ==
    CASE method = "_trace_return" -> "trace_return"
      [] method = "_trace_access" -> "trace_access"
      [] OTHER -> method

\* the arguments of a call in the order in which Python evaluates them: the
\* positional and splat arguments, then the keyword and double-splat ones
Operands(call) ==
    [i \in 1..Len(call.args) |->
        IF call.args[i].type = "Starred"
        THEN [prefix |-> "*", node |-> call.args[i].value]
        ELSE [prefix |-> "", node |-> call.args[i]]]
    \o
    [i \in 1..Len(call.keywords) |->
        [prefix |-> IF call.keywords[i].arg = None THEN "**"
                    ELSE call.keywords[i].arg \o "=",
         node |-> call.keywords[i].value]]

\* eval(node, env, log, boxing): the value of an expression and the log
\* extended by what its evaluation does; st is [val, log].
RECURSIVE eval(_, _, _, _)

\* the operands ops[i..] evaluated in order; st is [vals, log]
RECURSIVE eval_operands(_, _, _, _, _)
eval_operands(ops, i, env, st, boxing) ==
    IF i > Len(ops) THEN st
    ELSE LET r == eval(ops[i].node, env, st.log, boxing)
         IN  eval_operands(ops, i + 1, env,
                           [vals |-> Append(st.vals,
                                        [r.val EXCEPT !.value = ops[i].prefix \o @]),
                            log |-> r.log],
                           boxing)

AnyBoxed(vals) == \E i \in 1..Len(vals) : vals[i].boxed

Values(vals) == [i \in 1..Len(vals) |-> vals[i].value]

\* a call on the tracer: the argument that is a value of the program is
\* evaluated, the callback is logged, and the method returns
eval_callback(call, env, log, boxing) ==
    LET method == call.func.attr
        private == IsPrivate(method)
        cb == Method(method)
        literal == cb \in {"trace_assign", "trace_delete"}
        operand == IF cb \in {"trace_access", "trace_assign"} THEN call.args[2]
                   ELSE call.args[1]
        r == IF cb = "trace_delete" THEN [val |-> Plain(None), log |-> log]
             ELSE eval(operand, env, log, boxing)
        name == CASE literal -> Literal(call.args[1])
                  [] cb = "trace_access" -> call.args[1].s
                  [] cb = "trace_argument" /\ Len(call.args) > 1 -> call.args[2].s
                  [] OTHER -> ""
        n == CASE cb = "trace_function" -> call.args[2].n
               [] cb = "trace_argument" /\ Len(call.keywords) > 0 ->
                    call.keywords[1].value.n
               [] OTHER -> 0
        flag == IF cb = "trace_return" THEN call.args[2].value ELSE FALSE
        event == Len(r.log) + 1
    IN  [val |-> IF cb = "trace_delete" THEN Plain(None)
                 ELSE callback_result(private, r.val, event, boxing),
         log |-> Append(r.log, Entry(cb, private, name, r.val, n, flag))]

\* a call of the program: the callee, then the arguments, then the call
eval_call(call, env, log, boxing) ==
    LET f == eval(call.func, env, log, boxing)
        as == eval_operands(Operands(call), 1, env,
                            [vals |-> <<>>, log |-> f.log], boxing)
        result == [boxed |-> f.val.boxed \/ AnyBoxed(as.vals),
                   value |-> f.val.value \o "(" \o JoinStr(Values(as.vals), 1) \o ")",
                   event |-> 0]
    IN  [val |-> Plain(result.value),
         log |-> Append(as.log, Entry("call", FALSE, "", result, 0, FALSE))]

eval(node, env, log, boxing) ==
    CASE node.type = "Name" -> [val |-> Plain(env[node.id]), log |-> log]
      [] node.type = "Num" -> [val |-> Plain(ToString(node.n)), log |-> log]
      [] node.type = "Str" -> [val |-> Plain("'" \o node.s \o "'"), log |-> log]
      [] node.type = "NameConstant" -> [val |-> Plain(ToString(node.value)), log |-> log]
      [] node.type = "Attribute" ->
            LET r == eval(node.value, env, log, boxing)
                result == [r.val EXCEPT !.value = @ \o "." \o node.attr]
            IN  [val |-> Plain(result.value),
                 log |-> Append(r.log, Entry("expr", FALSE, "", result, 0, FALSE))]
      [] node.type \in {"Tuple", "List"} ->
            LET es == eval_operands([i \in 1..Len(node.elts) |->
                                        [prefix |-> "", node |-> node.elts[i]]],
                                    1, env, [vals |-> <<>>, log |-> log], boxing)
                result == [boxed |-> AnyBoxed(es.vals),
                           value |-> "(" \o JoinStr(Values(es.vals), 1) \o ")",
                           event |-> 0]
            IN  [val |-> Plain(result.value),
                 log |-> Append(es.log, Entry("expr", FALSE, "", result, 0, FALSE))]
      [] node.type = "Call" ->
            IF IsCallback(node.func) THEN eval_callback(node, env, log, boxing)
            ELSE eval_call(node, env, log, boxing)

\* the names of the program, each bound at first to a value of its own name
Variables == {"x", "y", "z", "f", "g", "c", "d", "r", "s", "o"}

Env0 == [v \in Variables |-> v]

Unbound == "<unbound>"

\* the assignment of the value x to a target; st is [env, log]
RECURSIVE bind(_, _, _)
RECURSIVE bind_all(_, _, _, _)
bind(target, x, st) ==
    CASE target.type = "Name" ->
            [env |-> [st.env EXCEPT ![target.id] = x.value],
             log |-> Append(st.log, Entry("bind", FALSE, target.id, x, 0, FALSE))]
      [] target.type \in {"Tuple", "List"} ->
            bind_all(target.elts, 1, x, st)
      [] target.type = "Starred" ->
            bind(target.value, [x EXCEPT !.value = @ \o ":"], st)
      [] OTHER ->
            [st EXCEPT !.log = Append(@, Entry("bind", FALSE, "." \o target.attr,
                                                x, 0, FALSE))]

\* the elements of x to the targets elts[i..]
bind_all(elts, i, x, st) ==
    IF i > Len(elts) THEN st
    ELSE bind_all(elts, i + 1, x,
                  bind(elts[i],
                       [x EXCEPT !.value = @ \o "[" \o ToString(i - 1) \o "]"], st))

\* the targets of t1 = ... = tk = x, bound from left to right
RECURSIVE bind_targets(_, _, _, _)
bind_targets(targets, i, x, st) ==
    IF i > Len(targets) THEN st
    ELSE bind_targets(targets, i + 1, x, bind(targets[i], x, st))

RECURSIVE unbind(_, _, _)
unbind(targets, i, st) ==
    IF i > Len(targets) THEN st
    ELSE unbind(targets, i + 1,
                IF targets[i].type # "Name" THEN st
                ELSE [env |-> [st.env EXCEPT ![targets[i].id] = Unbound],
                      log |-> Append(st.log, Entry("unbind", FALSE, targets[i].id,
                                                   Plain(None), 0, FALSE))])

\* one statement; st is [env, log]
exec_statement(node, st, boxing) ==
    CASE node.type = "Assign" ->
            LET r == eval(node.value, st.env, st.log, boxing)
            IN  bind_targets(node.targets, 1, r.val, [env |-> st.env, log |-> r.log])
      [] node.type = "Delete" -> unbind(node.targets, 1, st)
      [] OTHER ->
            [st EXCEPT !.log = eval(node.value, st.env, st.log, boxing).log]

RECURSIVE exec(_, _, _, _)
exec(body, i, st, boxing) ==
    IF i > Len(body) THEN st
    ELSE exec(body, i + 1, exec_statement(body[i], st, boxing), boxing)

\* the statements of body run in the environment Env0
execute(body, boxing) == exec(body, 1, [env |-> Env0, log |-> <<>>], boxing)

\* --- the machine: an expression is written, made into a statement, given
\* to the transformer, and the rewritten statement is run
GraphIdle ==
    /\ G = new_flow_graph
    /\ S = new_flow_graph
    /\ outputs = "all"
    /\ R = NoResult
    /\ D = NoDiagram
    /\ passed = new_flow_graph

Kinds == {"pos", "star", "kw", "dstar"}

RECURSIVE NumCalls(_)
RECURSIVE NumCallsIn(_, _)
NumCallsIn(nodes, i) ==
    IF i > Len(nodes) THEN 0 ELSE NumCalls(nodes[i]) + NumCallsIn(nodes, i + 1)

NumCalls(node) ==
    CASE node.type = "CallSite" ->
            1 + NumCalls(node.func)
              + NumCallsIn([i \in 1..Len(node.items) |-> node.items[i].value], 1)
      [] node.type \in {"Tuple", "List"} -> NumCallsIn(node.elts, 1)
      [] node.type \in {"Attribute", "Starred"} -> NumCalls(node.value)
      [] OTHER -> 0

\* the number of arguments written in the calls of an expression
RECURSIVE NumArgs(_)
RECURSIVE NumArgsIn(_, _)
NumArgsIn(nodes, i) ==
    IF i > Len(nodes) THEN 0 ELSE NumArgs(nodes[i]) + NumArgsIn(nodes, i + 1)

NumArgs(node) ==
    CASE node.type = "CallSite" ->
            Len(node.items) + NumArgs(node.func)
              + NumArgsIn([i \in 1..Len(node.items) |-> node.items[i].value], 1)
      [] node.type \in {"Tuple", "List"} -> NumArgsIn(node.elts, 1)
      [] node.type \in {"Attribute", "Starred"} -> NumArgs(node.value)
      [] OTHER -> 0

\* whether a tuple or an attribute is computed in the expression
RECURSIVE HasOperand(_)
HasOperand(node) ==
    CASE node.type = "CallSite" ->
            \/ HasOperand(node.func)
            \/ \E i \in 1..Len(node.items) : HasOperand(node.items[i].value)
      [] node.type \in {"Tuple", "List", "Attribute"} -> TRUE
      [] OTHER -> FALSE

\* what Python's grammar allows: no ordinary argument after a keyword or
\* double-splat argument, no splat after a double-splat, no keyword twice
Legal(items) ==
    /\ \A i, j \in 1..Len(items) :
          i < j => /\ ~(items[i].kind \in {"kw", "dstar"} /\ items[j].kind = "pos")
                   /\ ~(items[i].kind = "dstar" /\ items[j].kind = "star")
                   /\ ~(items[i].kind = "kw" /\ items[j].kind = "kw"
                        /\ items[i].name = items[j].name)

\* the argument written for a kind: a name of its own
NewArg(kind, name) ==
    Arg(kind, IF kind = "kw" THEN name ELSE None,
        Name(CASE kind = "pos" -> "x" [] kind = "star" -> "c"
               [] kind = "kw" -> "x" [] kind = "dstar" -> "d", Load))

KeywordNames == {"y", "z"}

InitTrace ==
    /\ pc = "expr"
    /\ stmt = Expr(Name("x", Load))
    /\ tree = <<>>
    /\ run = <<>>
    /\ GraphIdle

\* the expression becomes the one argument of a call: g(e), f(y=e)
WrapArgument ==
    /\ pc = "expr"
    /\ NumCalls(stmt.value) < MaxCalls
    /\ NumArgs(stmt.value) < MaxArgs
    /\ \E kind \in {"pos", "kw"} :
          stmt' = Expr(CallSite(Name(IF NumCalls(stmt.value) = 0 THEN "g" ELSE "f", Load),
                                <<Arg(kind, IF kind = "kw" THEN "y" ELSE None,
                                      stmt.value)>>))
    /\ UNCHANGED <<pc, G, S, outputs, R, D, passed, tree, run>>

\* one more argument is written in the call, before or after the others
AddArgument ==
    /\ pc = "expr"
    /\ stmt.value.type = "CallSite"
    /\ NumArgs(stmt.value) < MaxArgs
    /\ \E kind \in Kinds, name \in KeywordNames, front \in BOOLEAN :
          LET arg == NewArg(kind, name)
              items == IF front THEN <<arg>> \o stmt.value.items
                       ELSE Append(stmt.value.items, arg)
          IN  /\ Legal(items)
              /\ stmt' = Expr([stmt.value EXCEPT !.items = items])
    /\ UNCHANGED <<pc, G, S, outputs, R, D, passed, tree, run>>

\* the result of the call is called: f(...)()
CallResult ==
    /\ pc = "expr"
    /\ stmt.value.type = "CallSite"
    /\ NumCalls(stmt.value) < MaxCalls
    /\ stmt' = Expr(CallSite(stmt.value, <<>>))
    /\ UNCHANGED <<pc, G, S, outputs, R, D, passed, tree, run>>

\* the expression becomes part of a larger one: (e, y) or e.o
WrapOperand ==
    /\ pc = "expr"
    /\ stmt.value.type \in {"CallSite", "Name"}
    /\ ~HasOperand(stmt.value)
    /\ \/ stmt' = Expr(Tuple(<<stmt.value, Name("y", Load)>>, Load))
       \/ stmt' = Expr(Attribute(stmt.value, "o", Load))
    /\ UNCHANGED <<pc, G, S, outputs, R, D, passed, tree, run>>

Target(id) == Name(id, Store)

\* the targets of an assignment whose targets are names and tuples of names
\*   r = e;  r = s = e;  x, y = e;  z = x, y = e;  x, (y, z) = e
SupportedTargets ==
    << <<Target("r")>>,
       <<Target("r"), Target("s")>>,
       <<Tuple(<<Target("x"), Target("y")>>, Store)>>,
       <<Target("z"), Tuple(<<Target("x"), Target("y")>>, Store)>>,
       <<Tuple(<<Target("x"), Tuple(<<Target("y"), Target("z")>>, Store)>>, Store)>> >>

\* targets of other shapes
\*   [x, y] = e;  x, [y, z] = e;  o.a = e;  x, *y = e;  r = o.a = e
OtherTargets ==
    << <<List(<<Target("x"), Target("y")>>, Store)>>,
       <<Tuple(<<Target("x"), List(<<Target("y"), Target("z")>>, Store)>>, Store)>>,
       <<Attribute(Name("o", Load), "a", Store)>>,
       <<Tuple(<<Target("x"), Starred(Target("y"), Store)>>, Store)>>,
       <<Target("r"), Attribute(Name("o", Load), "a", Store)>> >>

\* del x;  del x, y
DeleteTargets ==
    << <<Name("x", Del)>>, <<Name("x", Del), Name("y", Del)>> >>

MakeExpr ==
    /\ pc = "expr"
    /\ pc' = "stmt"
    /\ UNCHANGED <<G, S, outputs, R, D, passed, stmt, tree, run>>

MakeAssign ==
    /\ pc = "expr"
    /\ pc' = "stmt"
    /\ \/ \E i \in 1..Len(SupportedTargets) :
             /\ NumArgs(stmt.value) <= 1 \/ i \in {1, 4}
             /\ stmt' = Assign(SupportedTargets[i], stmt.value)
       \/ \E i \in 1..Len(OtherTargets) :
             /\ NumArgs(stmt.value) = 0
             /\ stmt' = Assign(OtherTargets[i], stmt.value)
    /\ UNCHANGED <<G, S, outputs, R, D, passed, tree, run>>

MakeDelete ==
    /\ pc = "expr"
    /\ stmt.value.type = "Name"
    /\ pc' = "stmt"
    /\ \E i \in 1..Len(DeleteTargets) : stmt' = Delete(DeleteTargets[i])
    /\ UNCHANGED <<G, S, outputs, R, D, passed, tree, run>>

\* ASTTraceTransformer(tracer).visit on the parsed statement
Rewrite ==
    /\ pc = "stmt"
    /\ pc' = "rewritten"
    /\ tree' = visit_statement(parse(stmt))
    /\ UNCHANGED <<G, S, outputs, R, D, passed, stmt, run>>

\* the rewritten statement is run, with a tracer that boxes or one that
\* does not
Run ==
    /\ pc = "rewritten"
    /\ tree.ok
    /\ pc' = "ran"
    /\ \E boxing \in BOOLEAN :
          run' = execute(tree.body, boxing) @@ [boxing |-> boxing]
    /\ UNCHANGED <<G, S, outputs, R, D, passed, stmt, tree>>

NextTrace ==
    \/ WrapArgument \/ AddArgument \/ CallResult \/ WrapOperand
    \/ MakeExpr \/ MakeAssign \/ MakeDelete \/ Rewrite \/ Run

SpecTrace == InitTrace /\ [][NextTrace]_vars

\* ------------------------------------------------------ reading the traces
\* what the log shows of an entry: the callback or step, the name, the value
\* and the number (nargs of trace_function, nstars of trace_argument)
Ev(cb, name, value, n) == [cb |-> cb, name |-> name, value |-> value, n |-> n]

Shown(log) == [i \in 1..Len(log) |-> Ev(log[i].cb, log[i].name, log[i].value, log[i].n)]

Ran == pc = "ran"

Prefix(item) ==
    CASE item.kind = "pos" -> ""
      [] item.kind = "star" -> "*"
      [] item.kind = "kw" -> item.name \o "="
      [] item.kind = "dstar" -> "**"

NStars(item) ==
    CASE item.kind = "star" -> 1 [] item.kind = "dstar" -> 2 [] OTHER -> 0

\* the arguments of a call as they are written, or as Python evaluates them
InOrder(items, written) ==
    IF written THEN items ELSE Positional(items) \o Keywords(items)

\* the value the original program computes for an expression
RECURSIVE value_of(_)
value_of(node) ==
    CASE node.type = "Name" -> Env0[node.id]
      [] node.type = "CallSite" ->
            LET items == InOrder(node.items, FALSE)
            IN  value_of(node.func) \o "("
                \o JoinStr([i \in 1..Len(items) |->
                               Prefix(items[i]) \o value_of(items[i].value)], 1)
                \o ")"
      [] node.type = "Tuple" ->
            "(" \o JoinStr([i \in 1..Len(node.elts) |-> value_of(node.elts[i])], 1) \o ")"
      [] node.type = "Attribute" -> value_of(node.value) \o "." \o node.attr

\* The callbacks and steps that the evaluation of an expression is to make:
\* for a call, those of the callee, trace_function with the number of
\* arguments, for each argument in turn those of the argument and its
\* trace_argument, the real call, trace_return with its result.
RECURSIVE Announced(_, _)
RECURSIVE AnnouncedArgs(_, _, _)
AnnouncedArgs(items, i, written) ==
    IF i > Len(items) THEN <<>>
    ELSE Announced(items[i].value, written)
         \o <<Ev("trace_argument", IF items[i].kind = "kw" THEN items[i].name ELSE "",
                 value_of(items[i].value), NStars(items[i]))>>
         \o AnnouncedArgs(items, i + 1, written)

RECURSIVE AnnouncedAll(_, _, _)
AnnouncedAll(nodes, i, written) ==
    IF i > Len(nodes) THEN <<>>
    ELSE Announced(nodes[i], written) \o AnnouncedAll(nodes, i + 1, written)

Announced(node, written) ==
    CASE node.type = "Name" -> <<Ev("trace_access", node.id, value_of(node), 0)>>
      [] node.type = "CallSite" ->
            Announced(node.func, written)
            \o <<Ev("trace_function", "", value_of(node.func), Len(node.items))>>
            \o AnnouncedArgs(InOrder(node.items, written), 1, written)
            \o <<Ev("call", "", value_of(node), 0),
                 Ev("trace_return", "", value_of(node), 0)>>
      [] node.type = "Tuple" ->
            AnnouncedAll(node.elts, 1, written) \o <<Ev("expr", "", value_of(node), 0)>>
      [] node.type = "Attribute" ->
            Announced(node.value, written) \o <<Ev("expr", "", value_of(node), 0)>>

\* the part of the log made by the evaluation of the statement's expression
ExpressionLog ==
    SelectSeq(Shown(run.log),
              LAMBDA e : e.cb \notin {"trace_assign", "trace_delete", "bind", "unbind"})

HasExpression == stmt.type \in {"Expr", "Assign"}

\* C13 as stated: for every call the callee is evaluated, trace_function is
\* announced with the number of arguments written, then each argument is
\* evaluated and announced by trace_argument in the order in which the
\* arguments are written, then the real call runs, then trace_return is
\* announced with its result.
CallbacksInSourceOrder ==
    (Ran /\ HasExpression) => ExpressionLog = Announced(stmt.value, TRUE)

\* C13, amended: the same, with the arguments evaluated and announced in the
\* order in which Python evaluates them: the ordinary and splat arguments in
\* the order written, then the keyword and double-splat arguments in the
\* order written.
CallbacksInEvaluationOrder ==
    (Ran /\ HasExpression) => ExpressionLog = Announced(stmt.value, FALSE)

\* a call f(y=x, *c), with an argument of its own evaluated in between
WitnessCallbacksInEvaluationOrder ==
    /\ Ran /\ HasExpression
    /\ stmt.value.type = "CallSite"
    /\ Len(stmt.value.items) = 2
    /\ stmt.value.items[1].kind = "kw"
    /\ stmt.value.items[1].value.type = "CallSite"
    /\ stmt.value.items[2].kind = "star"
    /\ Len(run.log) > 8

\* the statement r = f(x, y=g(x))
Scenario ==
    Assign(<<Name("r", Store)>>,
           CallSite(Name("f", Load),
                    <<Arg("pos", None, Name("x", Load)),
                      Arg("kw", "y",
                          CallSite(Name("g", Load),
                                   <<Arg("pos", None, Name("x", Load))>>))>>))

\* the call, argument and return events of the log
FunctionEvents ==
    SelectSeq(Shown(run.log),
              LAMBDA e : e.cb \in {"trace_function", "trace_argument", "trace_return"})

\* C14 as stated: r = f(x, y=g(x)) gives CallEvent(g,1), ArgumentEvent(x),
\* ReturnEvent(g(x)), CallEvent(f,2), ArgumentEvent(x),
\* ArgumentEvent(g(x), name y), ReturnEvent(f(...)).
ScenarioInnermostFirst ==
    (Ran /\ stmt = Scenario) =>
        FunctionEvents =
            <<Ev("trace_function", "", "g", 1),
              Ev("trace_argument", "", "x", 0),
              Ev("trace_return", "", "g(x)", 0),
              Ev("trace_function", "", "f", 2),
              Ev("trace_argument", "", "x", 0),
              Ev("trace_argument", "y", "g(x)", 0),
              Ev("trace_return", "", "f(x, y=g(x))", 0)>>

\* C14, amended: r = f(x, y=g(x)) gives CallEvent(f,2), ArgumentEvent(x),
\* CallEvent(g,1), ArgumentEvent(x), ReturnEvent(g(x)),
\* ArgumentEvent(g(x), name y), ReturnEvent(f(...)): the events of the nested
\* call lie between the CallEvent of the enclosing call and the
\* ArgumentEvent of the argument it computes.
ScenarioCallFirst ==
    (Ran /\ stmt = Scenario) =>
        FunctionEvents =
            <<Ev("trace_function", "", "f", 2),
              Ev("trace_argument", "", "x", 0),
              Ev("trace_function", "", "g", 1),
              Ev("trace_argument", "", "x", 0),
              Ev("trace_return", "", "g(x)", 0),
              Ev("trace_argument", "y", "g(x)", 0),
              Ev("trace_return", "", "f(x, y=g(x))", 0)>>

WitnessScenarioCallFirst == Ran /\ stmt = Scenario /\ Len(FunctionEvents) = 7

\* ---------------------------------------------- assignments and deletions
\* the names of a target as Python writes the literal of them
RECURSIVE PatternText(_)
PatternText(target) ==
    CASE target.type = "Name" -> "'" \o target.id \o "'"
      [] target.type = "Tuple" ->
            "(" \o JoinStr([i \in 1..Len(target.elts) |-> PatternText(target.elts[i])], 1)
                \o ")"
      [] target.type = "List" ->
            "[" \o JoinStr([i \in 1..Len(target.elts) |-> PatternText(target.elts[i])], 1)
                \o "]"

NamesText(targets) ==
    "[" \o JoinStr([i \in 1..Len(targets) |-> PatternText(targets[i])], 1) \o "]"

\* the run of the original statement, without the tracer
Original == execute(<<parse(stmt)>>, FALSE)

Bindings(log) == SelectSeq(log, LAMBDA e : e.cb \in {"bind", "unbind"})

At(cb) == {i \in 1..Len(run.log) : run.log[i].cb = cb}

\* one trace_assign, after the whole of e and before every binding, with the
\* names of all targets and the value of e; the bindings and the scope they
\* leave are those of the original statement
AssignAnnounced ==
    (Ran /\ stmt.type = "Assign") =>
        /\ Cardinality(At("trace_assign")) = 1
        /\ \A i \in At("trace_assign") :
              /\ run.log[i].name = NamesText(stmt.targets)
              /\ run.log[i].value = value_of(stmt.value)
              /\ SubSeq(Shown(run.log), 1, i - 1) = Announced(stmt.value, FALSE)
              /\ i < Len(run.log)
              /\ \A j \in (i + 1)..Len(run.log) :
                    run.log[j].cb = "bind" /\ ~run.log[j].boxed
              /\ SubSeq(run.log, i + 1, Len(run.log)) = Bindings(Original.log)
        /\ run.env = Original.env

\* one trace_delete with the names, before every name is removed
DeleteAnnounced ==
    (Ran /\ stmt.type = "Delete") =>
        /\ At("trace_delete") = {1}
        /\ run.log[1].name = NamesText(stmt.targets)
        /\ Len(run.log) = 1 + Len(stmt.targets)
        /\ \A j \in 2..Len(run.log) :
              run.log[j].cb = "unbind" /\ run.log[j].name = stmt.targets[j - 1].id
        /\ run.env = Original.env
        /\ \A j \in 1..Len(stmt.targets) : run.env[stmt.targets[j].id] = Unbound

\* C15: an assignment t1 = ... = tk = e that is rewritten announces exactly
\* one AssignEvent, after e is evaluated and before any target is bound,
\* naming all targets in source order, and binds the targets to the unboxed
\* value; a deletion del n1, ..., nk announces exactly one DeleteEvent with
\* the names [n1, ..., nk] before any of the names is removed.
AssignAndDeleteAnnounced == AssignAnnounced /\ DeleteAnnounced

\* z = x, y = f(...) with a boxed return value
WitnessAssignAndDeleteAnnounced ==
    /\ Ran /\ run.boxing
    /\ stmt.type = "Assign"
    /\ stmt.targets = SupportedTargets[4]
    /\ stmt.value.type = "CallSite"
    /\ \E i \in At("trace_assign") : run.log[i].boxed /\ Len(run.log) = i + 3

\* a target made of names, tuples and lists only
RECURSIVE IsPattern(_)
IsPattern(target) ==
    \/ target.type = "Name"
    \/ /\ target.type \in {"Tuple", "List"}
       /\ \A i \in 1..Len(target.elts) : IsPattern(target.elts[i])

Rewrote == pc = "rewritten" /\ stmt.type = "Assign"

\* C16: the rewrite of an assignment succeeds when every target is a name or
\* a nested tuple or list pattern of names, and passes the same nested
\* structure of names to trace_assign; for any other target it fails with
\* the error 'Unsupported assignment target'.
RewriteOfTargets ==
    Rewrote =>
        IF \A i \in 1..Len(stmt.targets) : IsPattern(stmt.targets[i])
        THEN /\ tree.ok
             /\ Len(tree.body) = 1
             /\ tree.body[1].targets = stmt.targets
             /\ Literal(tree.body[1].value.args[1]) = NamesText(stmt.targets)
        ELSE ~tree.ok /\ tree.error = TypeError

Returns == At("trace_return")

LastReturn == CHOOSE i \in Returns : \A j \in Returns : j <= i

\* C17: the flag multiple_values of a trace_return is true if and only if
\* the call is the whole right-hand side of an assignment with a target that
\* is not a bare name; it is false for a call that is an argument, the
\* callee, an expression statement or inside the right-hand side.
MultipleValuesFlag ==
    Ran =>
        \A i \in Returns :
            run.log[i].flag <=>
                /\ stmt.type = "Assign"
                /\ stmt.value.type = "CallSite"
                /\ i = LastReturn
                /\ \E t \in 1..Len(stmt.targets) : stmt.targets[t].type # "Name"

\* z = x, y = f(.. g(..) ..): the flag is set for f and not for g
WitnessMultipleValuesFlag ==
    /\ Ran
    /\ stmt.type = "Assign"
    /\ stmt.targets = SupportedTargets[4]
    /\ stmt.value.type = "CallSite"
    /\ Cardinality(Returns) = 2
    /\ run.log[LastReturn].flag
    /\ \E i \in Returns : ~run.log[i].flag

\* the entry after a call or read takes its value as it is returned
Consumed(i) ==
    /\ i < Len(run.log)
    /\ run.log[i + 1].cb \in {"trace_argument", "trace_assign"}

Steps(log) ==
    SelectSeq([i \in 1..Len(log) |->
                  [cb |-> log[i].cb, name |-> log[i].name, value |-> log[i].value]],
              LAMBDA e : e.cb \in {"call", "expr", "bind", "unbind"})

\* C18: _trace_return and _trace_access are used exactly for the call or
\* read whose value goes straight to a trace_argument or a trace_assign,
\* which receives the box with the producing event; every other call or read
\* is unboxed.  No step of the original program (a real call, an enclosing
\* expression, a binding) sees a box, and each has the value it has in the
\* original program.
BoxesStayInside ==
    Ran =>
        /\ \A i \in At("trace_return") \cup At("trace_access") :
              /\ run.log[i].private <=> Consumed(i)
              /\ (run.boxing /\ Consumed(i)) =>
                    /\ run.log[i + 1].boxed
                    /\ run.log[i + 1].event = i
                    /\ run.log[i + 1].value = run.log[i].value
        /\ \A i \in 1..Len(run.log) :
              run.log[i].cb \in {"call", "expr", "bind", "unbind"} => ~run.log[i].boxed
        /\ Steps(run.log) = Steps(Original.log)
        /\ run.env = Original.env

\* a boxed return value passed as an argument, and a read that is a callee
WitnessBoxesStayInside ==
    /\ Ran /\ run.boxing
    /\ \E i \in At("trace_return") : run.log[i].private /\ run.log[i + 1].cb = "trace_argument"
    /\ \E i \in At("trace_access") : ~run.log[i].private
    /\ At("call") # {} /\ At("bind") # {}

====
